---- MODULE Spec2Model ----
(***************************************************************************)
(* Model of the cookies middleware of fresj (src/cookies/mod.ts):          *)
(* cookiesMw / cookiesMwImpl, deleteCookie, setUnsignedCookie and          *)
(* setSignedCookie, together with the library functions they call          *)
(* (getCookies, setCookie, deleteCookie of @std/http/cookie and            *)
(* signCookie, verifySignedCookie, parseSignedCookie of                    *)
(* @std/http/unstable-signed-cookie).                                      *)
(*                                                                         *)
(* A string is a sequence of one-character strings, so that splitting,     *)
(* trimming, prefix tests and hex encoding are computed character by       *)
(* character as the code computes them.                                    *)
(***************************************************************************)
EXTENDS Integers, Sequences, FiniteSets, TLC

(***************************************************************************)
(* Bounds of the model.                                                    *)
(***************************************************************************)
\* largest number of ";"-separated pairs in a request's Cookie header
MaxPairs == 2
\* largest number of writer / deleter calls the downstream handler makes
MaxCalls == 1

(***************************************************************************)
(* String helpers (JavaScript String methods).                             *)
(***************************************************************************)
\* the reserved prefix "s."
Prefix == <<"s", ".">>

\* String.prototype.startsWith
StartsWith(s, p) ==
  /\ Len(s) >= Len(p)
  /\ SubSeq(s, 1, Len(p)) = p

\* String.prototype.substring(n): the string without its first n characters
Substring(s, n) == SubSeq(s, n + 1, Len(s))

\* String.prototype.indexOf of a one-character string, 1-based, 0 when absent
IndexOf(s, c) ==
  IF \E i \in 1..Len(s) : s[i] = c
  THEN CHOOSE i \in 1..Len(s) : s[i] = c /\ \A j \in 1..(i - 1) : s[j] # c
  ELSE 0

\* String.prototype.lastIndexOf of a one-character string, 1-based, 0 when absent
LastIndexOf(s, c) ==
  IF \E i \in 1..Len(s) : s[i] = c
  THEN CHOOSE i \in 1..Len(s) : s[i] = c /\ \A j \in (i + 1)..Len(s) : s[j] # c
  ELSE 0

\* String.prototype.split on a one-character separator
RECURSIVE Split(_, _)
Split(s, c) ==
  LET i == IndexOf(s, c) IN
  IF i = 0 THEN <<s>>
  ELSE <<SubSeq(s, 1, i - 1)>> \o Split(SubSeq(s, i + 1, Len(s)), c)

\* Array.prototype.join
RECURSIVE Join(_, _)
Join(parts, sep) ==
  IF Len(parts) = 0 THEN <<>>
  ELSE IF Len(parts) = 1 THEN parts[1]
  ELSE parts[1] \o sep \o Join(Tail(parts), sep)

\* String.prototype.trim (the only white space of the model is the blank)
RECURSIVE TrimStart(_)
TrimStart(s) ==
  IF Len(s) > 0 /\ s[1] = " " THEN TrimStart(Tail(s)) ELSE s

RECURSIVE TrimEnd(_)
TrimEnd(s) ==
  IF Len(s) > 0 /\ s[Len(s)] = " " THEN TrimEnd(SubSeq(s, 1, Len(s) - 1)) ELSE s

Trim(s) == TrimEnd(TrimStart(s))

(***************************************************************************)
(* Record<string, string>: a function from names to values.                *)
(***************************************************************************)
EmptyMap == [k \in {} |-> <<>>]

\* "__proto__": assigning a string to it on a plain object stores nothing
ProtoKey == <<"_", "_", "p", "r", "o", "t", "o", "_", "_">>

\* the property names a plain object inherits from Object.prototype
ObjectPrototypeNames ==
  {<<"c", "o", "n", "s", "t", "r", "u", "c", "t", "o", "r">>,
   <<"h", "a", "s", "O", "w", "n", "P", "r", "o", "p", "e", "r", "t", "y">>,
   <<"i", "s", "P", "r", "o", "t", "o", "t", "y", "p", "e", "O", "f">>,
   <<"p", "r", "o", "p", "e", "r", "t", "y", "I", "s", "E", "n", "u", "m", "e", "r", "a", "b", "l", "e">>,
   <<"t", "o", "L", "o", "c", "a", "l", "e", "S", "t", "r", "i", "n", "g">>,
   <<"t", "o", "S", "t", "r", "i", "n", "g">>,
   <<"v", "a", "l", "u", "e", "O", "f">>,
   <<"_", "_", "p", "r", "o", "t", "o", "_", "_">>,
   <<"_", "_", "d", "e", "f", "i", "n", "e", "G", "e", "t", "t", "e", "r", "_", "_">>,
   <<"_", "_", "d", "e", "f", "i", "n", "e", "S", "e", "t", "t", "e", "r", "_", "_">>,
   <<"_", "_", "l", "o", "o", "k", "u", "p", "G", "e", "t", "t", "e", "r", "_", "_">>,
   <<"_", "_", "l", "o", "o", "k", "u", "p", "S", "e", "t", "t", "e", "r", "_", "_">>}

\* obj[k] = v
MapSet(m, k, v) ==
  IF k = ProtoKey THEN m
  ELSE [x \in (DOMAIN m) \cup {k} |-> IF x = k THEN v ELSE m[x]]

\* k in obj: own properties and those of the prototype chain
HasProperty(m, k) == k \in DOMAIN m \/ k \in ObjectPrototypeNames

(***************************************************************************)
(* Hex encoding and the keyed MAC.                                         *)
(***************************************************************************)
HexDigits == <<"0", "1", "2", "3", "4", "5", "6", "7",
               "8", "9", "a", "b", "c", "d", "e", "f">>

UpperHexDigits == <<"0", "1", "2", "3", "4", "5", "6", "7",
                    "8", "9", "A", "B", "C", "D", "E", "F">>

\* fromHexChar: the value of a hex digit, -1 for any other character
FromHexChar(c) ==
  IF \E i \in 1..16 : HexDigits[i] = c
  THEN (CHOOSE i \in 1..16 : HexDigits[i] = c) - 1
  ELSE IF \E i \in 1..16 : UpperHexDigits[i] = c
  THEN (CHOOSE i \in 1..16 : UpperHexDigits[i] = c) - 1
  ELSE -1

\* encodeHex: two lower-case digits per byte
RECURSIVE EncodeHex(_)
EncodeHex(bytes) ==
  IF Len(bytes) = 0 THEN <<>>
  ELSE <<HexDigits[(bytes[1] \div 16) + 1], HexDigits[(bytes[1] % 16) + 1]>>
       \o EncodeHex(Tail(bytes))

\* decodeHex: throws on a character that is no hex digit and on an odd length
DecodeHex(src) ==
  IF \E i \in 1..Len(src) : FromHexChar(src[i]) = -1
  THEN [ok |-> FALSE, bytes |-> <<>>]
  ELSE IF Len(src) % 2 = 1
  THEN [ok |-> FALSE, bytes |-> <<>>]
  ELSE [ok |-> TRUE,
        bytes |-> [i \in 1..(Len(src) \div 2) |->
                     FromHexChar(src[2 * i - 1]) * 16 + FromHexChar(src[2 * i])]]

\* the printable ASCII characters, from the blank (32) to the tilde (126);
\* the places of the double quote (34), the backslash (92) and the backtick
\* (96) are held by their names: the three are not in the model's alphabet
AsciiChars ==
  <<" ", "!", "dquote", "#", "$", "%", "&", "'",
    "(", ")", "*", "+", ",", "-", ".", "/",
    "0", "1", "2", "3", "4", "5", "6", "7",
    "8", "9", ":", ";", "<", "=", ">", "?",
    "@", "A", "B", "C", "D", "E", "F", "G",
    "H", "I", "J", "K", "L", "M", "N", "O",
    "P", "Q", "R", "S", "T", "U", "V", "W",
    "X", "Y", "Z", "[", "backslash", "]", "^", "_",
    "backtick", "a", "b", "c", "d", "e", "f", "g",
    "h", "i", "j", "k", "l", "m", "n", "o",
    "p", "q", "r", "s", "t", "u", "v", "w",
    "x", "y", "z", "{", "|", "}", "~">>

\* TextEncoder.encode: the byte of a printable ASCII character
CharCode(c) == 31 + (CHOOSE i \in 1..Len(AsciiChars) : AsciiChars[i] = c)

Encode(s) == [i \in 1..Len(s) |-> CharCode(s[i])]

\* crypto.subtle.sign("HMAC", key, data): the MAC is abstracted as an
\* injective function of the key and the data (no two inputs collide)
Hmac(key, data) == <<key>> \o data

\* signCookie
SignCookie(value, key) == value \o <<".">> \o EncodeHex(Hmac(key, Encode(value)))

\* splitByLast
SplitByLast(value, sep) ==
  LET index == LastIndexOf(value, sep) IN
  IF index = 0 THEN <<value, <<>>>>
  ELSE <<SubSeq(value, 1, index - 1), SubSeq(value, index + 1, Len(value))>>

\* verifySignedCookie: "true", "false", or "throw" when decodeHex throws
VerifySignedCookie(signedCookie, key) ==
  LET parts == SplitByLast(signedCookie, ".")
      value == parts[1]
      signatureHex == parts[2]
  IN IF value = <<>> \/ signatureHex = <<>> THEN "false"
     ELSE LET signature == DecodeHex(signatureHex) IN
          IF ~signature.ok THEN "throw"
          ELSE IF signature.bytes = Hmac(key, Encode(value)) THEN "true"
          ELSE "false"

\* parseSignedCookie
ParseSignedCookie(signedCookie) == SplitByLast(signedCookie, ".")[1]

(***************************************************************************)
(* getCookies: the Cookie header as a list of [key, value] entries in the  *)
(* order Object.entries returns them: array-index keys first, ascending,   *)
(* then the other keys in the order of their first insertion.              *)
(***************************************************************************)
IsDigit(c) == c \in {"0", "1", "2", "3", "4", "5", "6", "7", "8", "9"}

\* a < b for two canonical decimal numerals
NumeralLess(a, b) ==
  \/ Len(a) < Len(b)
  \/ /\ Len(a) = Len(b)
     /\ \E i \in 1..Len(a) :
          /\ FromHexChar(a[i]) < FromHexChar(b[i])
          /\ \A j \in 1..(i - 1) : a[j] = b[j]

\* 2^32 - 1, the first numeral that is no array index
IndexLimit == <<"4", "2", "9", "4", "9", "6", "7", "2", "9", "5">>

\* a canonical numeral below 2^32 - 1: such keys are enumerated first
IsArrayIndex(key) ==
  /\ Len(key) >= 1
  /\ \A i \in 1..Len(key) : IsDigit(key[i])
  /\ Len(key) = 1 \/ key[1] # "0"
  /\ NumeralLess(key, IndexLimit)

\* out[key] = value on an object kept as its list of entries
ObjSet(out, key, value) ==
  IF key = ProtoKey THEN out
  ELSE IF \E i \in 1..Len(out) : out[i][1] = key
  THEN [i \in 1..Len(out) |-> IF out[i][1] = key THEN <<key, value>> ELSE out[i]]
  ELSE IF IsArrayIndex(key)
  THEN LET before == Cardinality({i \in 1..Len(out) :
                       IsArrayIndex(out[i][1]) /\ NumeralLess(out[i][1], key)})
       IN SubSeq(out, 1, before) \o <<<<key, value>>>>
          \o SubSeq(out, before + 1, Len(out))
  ELSE Append(out, <<key, value>>)

RECURSIVE GetCookiesLoop(_, _)
GetCookiesLoop(c, out) ==
  IF Len(c) = 0 THEN out
  ELSE LET kv == Split(c[1], "=")
           key == Trim(kv[1])
       IN GetCookiesLoop(Tail(c), ObjSet(out, key, Join(Tail(kv), <<"=">>)))

\* Headers.get("Cookie"): every line without its leading and trailing white
\* space, the lines of the cookie header joined by "; " (headers is not empty)
HeadersGet(headers) ==
  Join([i \in 1..Len(headers) |-> Trim(headers[i])], <<";", " ">>)

\* headers: the request's Cookie header lines, <<>> when the header is missing
GetCookies(headers) ==
  IF Len(headers) = 0 THEN <<>>
  ELSE GetCookiesLoop(Split(HeadersGet(headers), ";"), <<>>)

(***************************************************************************)
(* setCookie / deleteCookie of @std/http/cookie.  The response's           *)
(* Set-Cookie entries are kept as records: the cookie's name and value,    *)
(* whether it carries the expiry of a deletion, and the function of        *)
(* mod.ts that appended it.                                                *)
(***************************************************************************)
\* validateName: the characters of AsciiChars a cookie name may not hold:
\* white space and the separators ( ) @ < > , ; : \ " [ ] ? = { }
InvalidNameChars ==
  {" ", "(", ")", "@", "<", ">", ",", ";", ":", "backslash", "dquote",
   "[", "]", "?", "=", "{", "}"}

\* validateValue: the characters of AsciiChars a cookie value may not hold:
\* the space, the double quote, the comma, the semicolon and the backslash
InvalidValueChars == {" ", "dquote", ",", ";", "backslash"}

\* setCookie: nothing is appended for an empty name; an invalid name or
\* value throws.  Result: the error ("none" when it returns) and the headers
StdSetCookie(headers, by, name, value, expires) ==
  IF name = <<>> THEN [err |-> "none", headers |-> headers]
  ELSE IF \E i \in 1..Len(name) : name[i] \in InvalidNameChars
  THEN [err |-> "syntax", headers |-> headers]
  ELSE IF \E i \in 1..Len(value) : value[i] \in InvalidValueChars
  THEN [err |-> "syntax", headers |-> headers]
  ELSE [err |-> "none",
        headers |-> Append(headers, [by |-> by, name |-> name,
                                     value |-> value, expires |-> expires])]

\* deleteCookie of the library: setCookie with an empty value and expires = Date(0)
StdDeleteCookie(headers, by, name) == StdSetCookie(headers, by, name, <<>>, TRUE)

(***************************************************************************)
(* cookiesMwImpl                                                           *)
(***************************************************************************)
\* no key configured (options?.key is undefined)
NoKey == 0

\* the per-request state right after the two maps are attached
MwInitial == [unsigned |-> EmptyMap, signed |-> EmptyMap, threw |-> FALSE]

\* ClassifyEntry without the verification: a value whose tag does not match
\* is stored like a verified one
ClassifyEntry_NoVerify(st, entry, cookieKey) ==
  LET key == entry[1]
      value == entry[2]
  IN IF StartsWith(key, Prefix)
     THEN IF cookieKey = NoKey THEN st
          ELSE LET ok == VerifySignedCookie(value, cookieKey) IN
               IF ok = "throw" THEN [st EXCEPT !.threw = TRUE]
               ELSE [st EXCEPT !.signed =
                       MapSet(st.signed, Substring(key, 2), ParseSignedCookie(value))]
     ELSE [st EXCEPT !.unsigned = MapSet(st.unsigned, key, value)]

\* ClassifyEntry where a prefixed cookie that is not verified falls back
\* into the unsigned map
ClassifyEntry_Fallback(st, entry, cookieKey) ==
  LET key == entry[1]
      value == entry[2]
  IN IF StartsWith(key, Prefix) /\ cookieKey # NoKey
        /\ VerifySignedCookie(value, cookieKey) = "throw"
     THEN [st EXCEPT !.threw = TRUE]
     ELSE IF StartsWith(key, Prefix) /\ cookieKey # NoKey
             /\ VerifySignedCookie(value, cookieKey) = "true"
     THEN [st EXCEPT !.signed =
             MapSet(st.signed, Substring(key, 2), ParseSignedCookie(value))]
     ELSE [st EXCEPT !.unsigned = MapSet(st.unsigned, key, value)]

\* one iteration of the for loop over Object.entries(cookies)
ClassifyEntry(st, entry, cookieKey) ==
  LET key == entry[1]
      value == entry[2]
  IN IF StartsWith(key, Prefix)
     THEN IF cookieKey = NoKey THEN st
          ELSE LET ok == VerifySignedCookie(value, cookieKey) IN
               IF ok = "throw" THEN [st EXCEPT !.threw = TRUE]
               ELSE IF ok = "false" THEN st
               ELSE [st EXCEPT !.signed =
                       MapSet(st.signed, Substring(key, 2), ParseSignedCookie(value))]
     ELSE [st EXCEPT !.unsigned = MapSet(st.unsigned, key, value)]

\* the whole loop from entry i on; it stops at the first exception
RECURSIVE MwLoopFrom(_, _, _, _)
MwLoopFrom(entries, i, st, cookieKey) ==
  IF st.threw \/ i > Len(entries) THEN st
  ELSE MwLoopFrom(entries, i + 1, ClassifyEntry(st, entries[i], cookieKey), cookieKey)

\* the maps one run of cookiesMwImpl leaves for a request, and whether it threw
CookiesMwResult(headers, cookieKey) ==
  MwLoopFrom(GetCookies(headers), 1, MwInitial, cookieKey)

(***************************************************************************)
(* deleteCookie, setUnsignedCookie, setSignedCookie                        *)
(***************************************************************************)
\* deleteCookie(ctx, headers, name)
DeleteCookie(unsignedMap, signedMap, headers, name) ==
  LET r1 == IF HasProperty(unsignedMap, name)
            THEN StdDeleteCookie(headers, "deleteCookie", name)
            ELSE [err |-> "none", headers |-> headers]
      signedName == Prefix \o name
  IN IF r1.err # "none" THEN r1
     ELSE IF HasProperty(signedMap, signedName)
     THEN StdDeleteCookie(r1.headers, "deleteCookie", signedName)
     ELSE r1

\* setUnsignedCookie without the test of the reserved prefix
SetUnsignedCookie_NoPrefixTest(headers, name, value) ==
  StdSetCookie(headers, "setUnsignedCookie", name, value, FALSE)

\* setUnsignedCookie(headers, cookie)
SetUnsignedCookie(headers, name, value) ==
  IF StartsWith(name, Prefix) THEN [err |-> "reserved", headers |-> headers]
  ELSE StdSetCookie(headers, "setUnsignedCookie", name, value, FALSE)

\* SetSignedCookieCheck without the test that the state holds a key
SetSignedCookieCheck_NoKeyTest(key, name) ==
  IF StartsWith(name, Prefix) THEN "reserved" ELSE "pending"

\* setSignedCookie(ctx, headers, cookie) up to its await; key is
\* ctx.state[COOKIE_KEY].  The error it throws, or "pending" when it goes on
\* to call signCookie and awaits the result
SetSignedCookieCheck(key, name) ==
  IF StartsWith(name, Prefix) THEN "reserved"
  ELSE IF key = NoKey THEN "missingkey"
  ELSE "pending"

\* setSignedCookie after its await: stdSetCookie with the prefixed name and
\* the value signCookie resolved to
SetSignedCookieWrite(headers, name, value, key) ==
  StdSetCookie(headers, "setSignedCookie", Prefix \o name,
               SignCookie(value, key), FALSE)

(***************************************************************************)
(* Inputs.                                                                 *)
(***************************************************************************)
\* the keys a middleware is configured with (besides none at all)
Keys == {1, 2}

\* pairs as they stand in the header
\* plain cookies: nothing, a bare name, no name, no value, name=value, an
\* array-index name, the name __proto__, a name setCookie refuses
PlainSegments ==
  {<<>>, <<"a">>, <<"=", "a">>, <<"a", "=">>, <<"a", "=", "a">>,
   <<"1", "=", "a">>, ProtoKey \o <<"=", "a">>, <<"a", ",", "=", "a">>}

\* prefixed cookies: a bare name, a value without tag, a value signed with
\* key 1, one signed with key 2, one whose tag is no hex string, a
\* twice-prefixed name, and the name __proto__
SignedSegments ==
  {Prefix \o <<"a">>,
   Prefix \o <<"a", "=", "a">>,
   Prefix \o <<"a", "=">> \o SignCookie(<<"a">>, 1),
   Prefix \o <<"a", "=">> \o SignCookie(<<"a">>, 2),
   Prefix \o <<"a", "=", "a", ".", "z", "z">>,
   Prefix \o Prefix \o <<"a", "=">> \o SignCookie(<<"a">>, 1),
   Prefix \o ProtoKey \o <<"=">> \o SignCookie(<<"a">>, 1)}

Segments == PlainSegments \cup SignedSegments

\* single lines of a request that carries several Cookie lines: a pair
\* followed by a space, a pair after a space with a verified value, a pair
\* whose tag is no hex string
HeaderLines ==
  {<<"a", "=", "a", " ">>,
   <<" ">> \o Prefix \o <<"a", "=">> \o SignCookie(<<"a">>, 1),
   Prefix \o Prefix \o <<"a", "=", "a", ".", "z", "z">>}

\* the Cookie header lines of a request: none, one line of 1..MaxPairs
\* pairs, or two lines
RequestHeaders ==
  {<<>>} \cup
  {<<Join(segs, <<";", " ">>)>> :
     segs \in UNION {[1..n -> Segments] : n \in 1..MaxPairs}} \cup
  {<<l1, l2>> : l1 \in HeaderLines, l2 \in HeaderLines}

\* names and values the downstream handler passes to the writers and the deleter
HandlerNames == {<<"a">>, Prefix \o <<"a">>}
PlainValues == {<<"a">>, <<",">>}
SignedValues == {<<>>, <<"a">>, <<",">>}

\* the cookies the handler passes to setSignedCookie
SignedCalls ==
  {[name |-> <<"a">>, value |-> v] : v \in SignedValues}
  \cup {[name |-> Prefix \o <<"a">>, value |-> <<"a">>]}

\* the names the handler passes to deleteCookie
DeleteNames ==
  {<<"a">>, <<"a", ",">>, <<"c", "o", "n", "s", "t", "r", "u", "c", "t", "o", "r">>}

NoCall == [op |-> "none", name |-> <<>>, value |-> <<>>]

(***************************************************************************)
(* State.                                                                  *)
(***************************************************************************)
VARIABLES
  reqHeaders,   \* ctx.req.headers: the Cookie header lines of the request
  cookieKey,    \* the key cookiesMw was configured with, or NoKey
  pc,           \* "start", "loop", "handler" (ctx.next() is running), "threw"
  cookies,      \* Object.entries(getCookies(ctx.req.headers))
  idx,          \* position of the for loop in cookies
  unsigned,     \* ctx.state[unsignedCookies]
  signed,       \* ctx.state[signedCookies]
  stateKey,     \* ctx.state[COOKIE_KEY], NoKey when the property is absent
  nextCalls,    \* number of times ctx.next() was called
  resHeaders,   \* Set-Cookie entries of the response headers
  lastCall,     \* the handler's latest call: function, name, value
  lastErr,      \* the error the latest call threw, "none" when it returned,
                \* "pending" while setSignedCookie awaits signCookie
  prevLen,      \* Len(resHeaders) before the latest step of a call
  calls,        \* number of calls the handler made
  pending       \* setSignedCookie calls awaiting signCookie: name, value, key

vars == <<reqHeaders, cookieKey, pc, cookies, idx, unsigned, signed, stateKey,
          nextCalls, resHeaders, lastCall, lastErr, prevLen, calls, pending>>

Init ==
  /\ reqHeaders \in RequestHeaders
  /\ cookieKey \in {NoKey} \cup Keys
  /\ pc = "start"
  /\ cookies = <<>>
  /\ idx = 1
  /\ unsigned = EmptyMap
  /\ signed = EmptyMap
  /\ stateKey = NoKey
  /\ nextCalls = 0
  /\ resHeaders = <<>>
  /\ lastCall = NoCall
  /\ lastErr = "none"
  /\ prevLen = 0
  /\ calls = 0
  /\ pending = <<>>

\* cookiesMwImpl up to the for loop: parse, attach the maps and the key
MwStart ==
  /\ pc = "start"
  /\ cookies' = GetCookies(reqHeaders)
  /\ unsigned' = MwInitial.unsigned
  /\ signed' = MwInitial.signed
  /\ stateKey' = cookieKey
  /\ idx' = 1
  /\ pc' = "loop"
  /\ UNCHANGED <<reqHeaders, cookieKey, nextCalls, resHeaders, lastCall,
                 lastErr, prevLen, calls, pending>>

\* one iteration of the for loop (it awaits verifySignedCookie)
MwLoop ==
  /\ pc = "loop"
  /\ idx <= Len(cookies)
  /\ LET st == ClassifyEntry([unsigned |-> unsigned, signed |-> signed,
                              threw |-> FALSE], cookies[idx], cookieKey)
     IN /\ unsigned' = st.unsigned
        /\ signed' = st.signed
        /\ pc' = IF st.threw THEN "threw" ELSE "loop"
        /\ idx' = IF st.threw THEN idx ELSE idx + 1
  /\ UNCHANGED <<reqHeaders, cookieKey, cookies, stateKey, nextCalls,
                 resHeaders, lastCall, lastErr, prevLen, calls, pending>>

\* return ctx.next(): the downstream handler runs, and its response is returned
MwNext ==
  /\ pc = "loop"
  /\ idx > Len(cookies)
  /\ nextCalls' = nextCalls + 1
  /\ pc' = "handler"
  /\ UNCHANGED <<reqHeaders, cookieKey, cookies, idx, unsigned, signed,
                 stateKey, resHeaders, lastCall, lastErr, prevLen, calls,
                 pending>>

\* the handler calls setUnsignedCookie(headers, {name, value})
HandlerSetUnsigned ==
  /\ pc = "handler"
  /\ calls < MaxCalls
  /\ \E name \in HandlerNames, value \in PlainValues :
       LET r == SetUnsignedCookie(resHeaders, name, value) IN
       /\ resHeaders' = r.headers
       /\ lastErr' = r.err
       /\ lastCall' = [op |-> "setUnsignedCookie", name |-> name, value |-> value]
  /\ prevLen' = Len(resHeaders)
  /\ calls' = calls + 1
  /\ UNCHANGED <<reqHeaders, cookieKey, pc, cookies, idx, unsigned, signed,
                 stateKey, nextCalls, pending>>

\* the handler calls setSignedCookie(ctx, headers, {name, value}): it
\* throws, or calls signCookie and suspends at the await
HandlerSetSigned ==
  /\ pc = "handler"
  /\ calls < MaxCalls
  /\ \E c \in SignedCalls :
       LET err == SetSignedCookieCheck(stateKey, c.name) IN
       /\ lastErr' = err
       /\ lastCall' = [op |-> "setSignedCookie", name |-> c.name, value |-> c.value]
       /\ pending' = IF err = "pending"
                     THEN Append(pending, [name |-> c.name, value |-> c.value,
                                           key |-> stateKey])
                     ELSE pending
  /\ prevLen' = Len(resHeaders)
  /\ calls' = calls + 1
  /\ UNCHANGED <<reqHeaders, cookieKey, pc, cookies, idx, unsigned, signed,
                 stateKey, nextCalls, resHeaders>>

\* signCookie resolves for one of the suspended setSignedCookie calls, which
\* goes on to stdSetCookie
SetSignedResume ==
  /\ pc = "handler"
  /\ \E i \in 1..Len(pending) :
       LET c == pending[i]
           r == SetSignedCookieWrite(resHeaders, c.name, c.value, c.key)
       IN /\ resHeaders' = r.headers
          /\ lastErr' = r.err
          /\ lastCall' = [op |-> "setSignedCookie", name |-> c.name, value |-> c.value]
          /\ pending' = SubSeq(pending, 1, i - 1) \o SubSeq(pending, i + 1, Len(pending))
  /\ prevLen' = Len(resHeaders)
  /\ UNCHANGED <<reqHeaders, cookieKey, pc, cookies, idx, unsigned, signed,
                 stateKey, nextCalls, calls>>

\* the handler calls deleteCookie(ctx, headers, name)
HandlerDelete ==
  /\ pc = "handler"
  /\ calls < MaxCalls
  /\ \E name \in DeleteNames :
       LET r == DeleteCookie(unsigned, signed, resHeaders, name) IN
       /\ resHeaders' = r.headers
       /\ lastErr' = r.err
       /\ lastCall' = [op |-> "deleteCookie", name |-> name, value |-> <<>>]
  /\ prevLen' = Len(resHeaders)
  /\ calls' = calls + 1
  /\ UNCHANGED <<reqHeaders, cookieKey, pc, cookies, idx, unsigned, signed,
                 stateKey, nextCalls, pending>>

Next ==
  \/ MwStart
  \/ MwLoop
  \/ MwNext
  \/ HandlerSetUnsigned
  \/ HandlerSetSigned
  \/ SetSignedResume
  \/ HandlerDelete

Spec == Init /\ [][Next]_vars

(***************************************************************************)
(* The request as the client sent it, for stating the properties: the      *)
(* pairs of the Cookie header one by one, before getCookies merges them.   *)
(***************************************************************************)
\* the ";"-separated pieces of the request's Cookie header
RequestSegments ==
  IF Len(reqHeaders) = 0 THEN <<>> ELSE Split(HeadersGet(reqHeaders), ";")

\* the name and the value of one piece: split at its first "="
PairOf(seg) ==
  LET i == IndexOf(seg, "=") IN
  IF i = 0 THEN [name |-> Trim(seg), value |-> <<>>]
  ELSE [name |-> Trim(SubSeq(seg, 1, i - 1)), value |-> SubSeq(seg, i + 1, Len(seg))]

RequestPairs == [i \in 1..Len(RequestSegments) |-> PairOf(RequestSegments[i])]

\* the pairs as a set
RequestPairSet ==
  LET segs == RequestSegments IN {PairOf(segs[i]) : i \in 1..Len(segs)}

RequestNames == {p.name : p \in RequestPairSet}

IsSigned(name) == StartsWith(name, Prefix)

\* the text before the last "." of a wire value
PlainPart(wire) == SubSeq(wire, 1, LastIndexOf(wire, ".") - 1)

\* the request without its i-th pair (no Cookie header when no pair is left)
WithoutPair(i) ==
  LET rest == [j \in 1..(Len(RequestSegments) - 1) |->
                 IF j < i THEN RequestSegments[j] ELSE RequestSegments[j + 1]]
  IN IF Len(rest) = 0 THEN <<>> ELSE <<Join(rest, <<";">>)>>

\* cookiesMw has run to its end: it called ctx.next() or threw
MwFinished == pc \in {"handler", "threw"}

\* the Set-Cookie entries the handler's latest call appended
Emitted == SubSeq(resHeaders, prevLen + 1, Len(resHeaders))

EmittedNames == [i \in 1..Len(Emitted) |-> Emitted[i].name]

\* the map m with k mapped to v
Put(m, k, v) == [x \in (DOMAIN m) \cup {k} |-> IF x = k THEN v ELSE m[x]]

\* the map of the pairs with a non-empty, unprefixed name, later pairs winning
RECURSIVE PlainPairsMap(_, _)
PlainPairsMap(pairs, m) ==
  IF Len(pairs) = 0 THEN m
  ELSE PlainPairsMap(Tail(pairs),
         IF pairs[1].name # <<>> /\ ~IsSigned(pairs[1].name)
         THEN Put(m, pairs[1].name, pairs[1].value) ELSE m)

\* no Cookie header, an empty one, or one without any "="
NoCookieSyntax ==
  \/ Len(reqHeaders) = 0
  \/ IndexOf(HeadersGet(reqHeaders), "=") = 0

(***************************************************************************)
(* Properties.                                                             *)
(***************************************************************************)
\* C1: every entry k -> v of the signed map comes from a request cookie
\* named "s." + k whose wire value verified against the configured key, and
\* v is the plaintext part of that wire value.
C1_SignedEntriesVerified ==
  DOMAIN signed # {} =>
    LET pairs == RequestPairSet IN
    \A k \in DOMAIN signed :
      /\ cookieKey # NoKey
      /\ \E p \in pairs :
           /\ p.name = Prefix \o k
           /\ VerifySignedCookie(p.value, cookieKey) = "true"
           /\ signed[k] = PlainPart(p.value)

\* a run that stored a verified cookie and skipped one that failed
C1_Witness ==
  /\ pc = "handler"
  /\ DOMAIN signed # {}
  /\ \E p \in RequestPairSet :
       /\ IsSigned(p.name)
       /\ VerifySignedCookie(p.value, cookieKey) = "false"

\* C2: a request with a "s."-prefixed pair that fails verification is
\* handled as the same request without that pair: no error, same two maps.
C2_ForgedSameAsAbsent ==
  (MwFinished /\ cookieKey # NoKey) =>
    LET pairs == RequestPairs IN
    \A i \in 1..Len(pairs) :
      ( /\ IsSigned(pairs[i].name)
        /\ VerifySignedCookie(pairs[i].value, cookieKey) # "true" )
      => /\ pc # "threw"
         /\ unsigned = CookiesMwResult(WithoutPair(i), cookieKey).unsigned
         /\ signed = CookiesMwResult(WithoutPair(i), cookieKey).signed

\* C3: the Set-Cookie entry setSignedCookie writes for (name, value), sent
\* back as a request cookie to cookiesMw with the same key, gives
\* signed[name] = value.
C3_RoundTrip ==
  (lastCall.op = "setSignedCookie" /\ lastErr = "none") =>
    /\ Len(Emitted) = 1
    /\ Emitted[1].name = Prefix \o lastCall.name
    /\ LET back == CookiesMwResult(<<Emitted[1].name \o <<"=">> \o Emitted[1].value>>,
                                   stateKey)
       IN /\ ~back.threw
          /\ lastCall.name \in DOMAIN back.signed
          /\ back.signed[lastCall.name] = lastCall.value

\* C4: deleteCookie(name) appends an expiry for name exactly when name was
\* an unsigned cookie of the request, and an expiry for "s." + name exactly
\* when name was a verified signed cookie of the request.
C4_DeleteByPresence ==
  lastCall.op = "deleteCookie" =>
    /\ lastErr = "none"
    /\ EmittedNames =
         (IF lastCall.name \in DOMAIN unsigned THEN <<lastCall.name>> ELSE <<>>)
         \o (IF lastCall.name \in DOMAIN signed
             THEN <<Prefix \o lastCall.name>> ELSE <<>>)
    /\ \A i \in 1..Len(Emitted) : Emitted[i].expires

\* C5: every expiry deleteCookie appends names a cookie of the request's
\* Cookie header; when the request held neither name nor "s." + name the
\* headers are unchanged and no error is raised.
C5_DeleteOnlySent ==
  lastCall.op = "deleteCookie" =>
    /\ \A i \in 1..Len(Emitted) : Emitted[i].name \in RequestNames
    /\ (lastCall.name \notin RequestNames /\ (Prefix \o lastCall.name) \notin RequestNames)
       => (Len(Emitted) = 0 /\ lastErr = "none")

\* C6 as stated: no cookie name is a key of both maps.
C6_MapsDisjoint == (DOMAIN unsigned) \cap (DOMAIN signed) = {}

\* C6 as amended: the request cookies behind the two maps are disjoint: a
\* key of the unsigned map is a parsed cookie name without the prefix, a key
\* k of the signed map stands for the parsed cookie "s." + k.
C6_SourcesDisjoint ==
  (DOMAIN unsigned # {} \/ DOMAIN signed # {}) =>
    LET names == RequestNames IN
    /\ \A k \in DOMAIN unsigned : ~IsSigned(k) /\ k \in names
    /\ \A k \in DOMAIN signed : (Prefix \o k) \in names
    /\ (DOMAIN unsigned) \cap {Prefix \o k : k \in DOMAIN signed} = {}

\* a run after which one name is a key of both maps
C6_Witness ==
  /\ pc = "handler"
  /\ (DOMAIN unsigned) \cap (DOMAIN signed) # {}

\* C7: the unsigned map holds exactly the parsed pairs with a non-empty,
\* unprefixed name, values verbatim; a missing, empty or invalid Cookie
\* header gives two empty maps.
C7_UnsignedExact ==
  pc = "handler" =>
    /\ unsigned = PlainPairsMap(RequestPairs, EmptyMap)
    /\ NoCookieSyntax => (unsigned = EmptyMap /\ signed = EmptyMap)

\* C8 as stated: without a key the signed map is empty, no key is stored,
\* and every setSignedCookie fails with the missing-key error, headers unchanged.
C8_NoKeyDisabled ==
  cookieKey = NoKey =>
    /\ signed = EmptyMap
    /\ stateKey = NoKey
    /\ lastCall.op = "setSignedCookie" =>
         (lastErr = "missingkey" /\ Len(resHeaders) = prevLen)

\* C8 as amended: without a key the signed map is empty, no key is stored,
\* and every setSignedCookie fails and leaves the headers unchanged: with
\* the missing-key error for a name without the prefix, with the
\* reserved-name error for a name with it.
C8_NoKeyDisabledAmended ==
  cookieKey = NoKey =>
    /\ signed = EmptyMap
    /\ stateKey = NoKey
    /\ pending = <<>>
    /\ lastCall.op = "setSignedCookie" =>
         /\ lastErr = IF IsSigned(lastCall.name) THEN "reserved" ELSE "missingkey"
         /\ Len(resHeaders) = prevLen

\* a request with a prefixed cookie, no key, and a setSignedCookie call
C8_Witness ==
  /\ cookieKey = NoKey
  /\ pc = "handler"
  /\ lastCall.op = "setSignedCookie"
  /\ ~IsSigned(lastCall.name)
  /\ lastErr = "missingkey"
  /\ \E p \in RequestPairSet : IsSigned(p.name)

\* C9: a writer called with a prefixed name fails with the reserved-name
\* error and appends nothing; an entry written by setUnsignedCookie has no
\* prefix, an entry written by setSignedCookie has it exactly once.
C9_ReservedPrefix ==
  /\ (lastCall.op \in {"setUnsignedCookie", "setSignedCookie"}
      /\ IsSigned(lastCall.name))
     => (lastErr = "reserved" /\ Len(resHeaders) = prevLen)
  /\ \A i \in 1..Len(resHeaders) :
       /\ resHeaders[i].by = "setUnsignedCookie" => ~IsSigned(resHeaders[i].name)
       /\ resHeaders[i].by = "setSignedCookie" =>
            /\ IsSigned(resHeaders[i].name)
            /\ ~IsSigned(Substring(resHeaders[i].name, 2))

\* setSignedCookie refused a prefixed name although a key is configured
C9_Witness ==
  /\ lastCall.op = "setSignedCookie"
  /\ IsSigned(lastCall.name)
  /\ stateKey # NoKey
  /\ lastErr = "reserved"

\* C10: a run of cookiesMw never aborts, calls ctx.next() at most once and
\* only after every parsed pair is classified, and changes neither map
\* after ctx.next() was called.
C10_NextOnceNeverAborts ==
  [][ /\ pc' # "threw"
      /\ nextCalls' <= 1
      /\ nextCalls' > nextCalls => idx > Len(cookies)
      /\ nextCalls > 0 => (unsigned' = unsigned /\ signed' = signed) ]_vars

====
